---- MODULE Spec2Model ----
(***************************************************************************)
(* Model of hseries.c: the harmonic-series threshold search.               *)
(*                                                                         *)
(* Numbers.  The program computes in long double.  Here every real value   *)
(* is an exact rational held as an integer numerator:                      *)
(*   - a threshold M is a multiple of 1/MDen (MDen a power of two, so the  *)
(*     value is exactly representable in binary floating point);           *)
(*   - a sum (sum, G_sum) is a multiple of 1/DenH, where DenH is the least *)
(*     common multiple of 1..MaxN, so every term 1/i with i <= MaxN and    *)
(*     every partial sum of such terms is exact.                           *)
(* The rounding error of a long double sum of at most MaxN terms is below  *)
(* MaxN * 2^-63, far below both DELTA and the smallest non-zero distance   *)
(* between a partial sum and a threshold of the grid (1/(DenH*MDen)), so   *)
(* every comparison of the program has the outcome computed here.          *)
(***************************************************************************)
EXTENDS Integers, Sequences, FiniteSets, TLC

(* ---------------------------- bounds ----------------------------------- *)

\* thresholds are the multiples of 2^-MFracBits (at least 3) ...
MFracBits == 3
\* ... from 0 up to MaxMEighths / 8
MaxMEighths == 26
\* longest command-line argument string
MaxArgLen == 3

MDen == 2 ^ MFracBits

\* the largest threshold numerator, and the thresholds (numerators over MDen)
MaxMNum == (MaxMEighths * MDen) \div 8

MGrid == 0 .. MaxMNum

(* ------------------------ program constants ---------------------------- *)

\* #define DELTA 0.000000001L, held as 1 / DELTA_INV
DELTA_INV == 1000000000

\* the ratio macros, each as <<numerator, denominator>>
EM_N_RATIO == << 564, 1000 >>
EM_N_RATIO_MEDIUM == << 5618, 10000 >>
EM_N_RATIO_LARGE == << 56147, 100000 >>
EM_N_RATIO_VERY_LARGE == << 56146, 100000 >>
EM_N_RATIO_HUGE == << 5614596, 10000000 >>
EM_N_RATIO_COLOSSAL == << 5614595, 10000000 >>

(* --------------------------- expl -------------------------------------- *)

\* expl's results are held in units of 1 / ExpScale
ExpScale == 10 ^ 5

RECURSIVE ExpTerms(_, _, _)
\* the Taylor series of e^(m/MDen), term by term until the terms vanish
ExpTerms(m, k, term) ==
    IF term = 0 THEN 0
    ELSE term + ExpTerms(m, k + 1, (term * m) \div (MDen * (k + 1)))

\* expl(M) for M = m / MDen, in units of 1 / ExpScale
expl(m) == ExpTerms(m, 0, ExpScale)

\* (unsigned long)(x * ratio): the cast throws the fraction away
Truncate(e, ratio) == (e * ratio[1]) \div (ExpScale * ratio[2])

\* the band of the estimator that M = m / MDen falls into
RatioOf(m) ==
    IF m >= 20 * MDen THEN EM_N_RATIO_COLOSSAL
    ELSE IF m >= 18 * MDen THEN EM_N_RATIO_HUGE
    ELSE IF m >= 16 * MDen THEN EM_N_RATIO_VERY_LARGE
    ELSE IF m >= 12 * MDen THEN EM_N_RATIO_LARGE
    ELSE IF m >= 9 * MDen THEN EM_N_RATIO_MEDIUM
    ELSE EM_N_RATIO

\* the initial guess of hseriesThreshold
InitialGuess(m) == Truncate(expl(m), RatioOf(m))

(* ------------------------ exact sums ----------------------------------- *)

\* the largest series length the model handles
MaxN == InitialGuess(MaxMNum) + 1

RECURSIVE Gcd(_, _)
Gcd(a, b) == IF b = 0 THEN a ELSE Gcd(b, a % b)

RECURSIVE LcmUpTo(_)
LcmUpTo(k) == IF k <= 1 THEN 1 ELSE (LcmUpTo(k - 1) \div Gcd(LcmUpTo(k - 1), k)) * k

\* common denominator of all sums
DenH == LcmUpTo(MaxN)

\* 1.0L / i
OneOver(i) == DenH \div i

RECURSIVE SumLoopExclusive(_, _, _)
\* SumLoop with the bound written i < nEnd
SumLoopExclusive(i, nEnd, acc) ==
    IF i < nEnd THEN SumLoopExclusive(i + 1, nEnd, acc + OneOver(i)) ELSE acc

RECURSIVE SumLoop(_, _, _)
\* for (long i = nStart; i <= nEnd; i++) sum += 1.0L/i;
SumLoop(i, nEnd, acc) ==
    IF i <= nEnd THEN SumLoop(i + 1, nEnd, acc + OneOver(i)) ELSE acc

harmonicSeriesEx(nStart, nEnd) ==
    IF (nStart = 0 \/ nEnd = 0) \/ (nStart > nEnd) THEN 0
    ELSE SumLoop(nStart, nEnd, 0)

harmonicSeries(k) == harmonicSeriesEx(1, k)

\* the comparison with its operands exchanged: (M - sum) > -DELTA
MMinusSumAboveMinusDelta(s, m) ==
    LET d == m * DenH - s * MDen
    IN  d >= 0 \/ (0 - d) <= ((DenH * MDen - 1) \div DELTA_INV)

\* the comparison without the margin: (sum - M) > 0
SumMinusMAboveZero(s, m) == s * MDen - m * DenH > 0

\* (sum - M) > -DELTA, for sum = s / DenH and M = m / MDen:
\*   (s*MDen - m*DenH) / (DenH*MDen) > -1/DELTA_INV
SumMinusMAboveMinusDelta(s, m) ==
    LET d == s * MDen - m * DenH
    IN  d >= 0 \/ (0 - d) <= ((DenH * MDen - 1) \div DELTA_INV)

(* --------------------------- strtold ----------------------------------- *)

\* the characters an argument is made of ("z" stands for any character that
\* can be no part of a number)
ArgChars == { "0", "1", "2", "5", ".", "-", "z" }

Digits == { "0", "1", "2", "3", "4", "5", "6", "7", "8", "9" }

DigitVal(c) ==
    CASE c = "0" -> 0 [] c = "1" -> 1 [] c = "2" -> 2 [] c = "3" -> 3
      [] c = "4" -> 4 [] c = "5" -> 5 [] c = "6" -> 6 [] c = "7" -> 7
      [] c = "8" -> 8 [] c = "9" -> 9

RECURSIVE SkipSpaces(_, _)
\* index of the first character of s at or after i that is no white space
SkipSpaces(s, i) ==
    IF i <= Len(s) /\ s[i] = " " THEN SkipSpaces(s, i + 1) ELSE i

RECURSIVE DigitsEnd(_, _)
\* index just after the run of digits of s that starts at i
DigitsEnd(s, i) ==
    IF i <= Len(s) /\ s[i] \in Digits THEN DigitsEnd(s, i + 1) ELSE i

RECURSIVE DigitsVal(_, _, _)
\* the decimal number written by s[i], ..., s[j-1]
DigitsVal(s, i, j) ==
    IF j <= i THEN 0 ELSE DigitsVal(s, i, j - 1) * 10 + DigitVal(s[j - 1])

\* strtold(s, &end) on a decimal string: white space, an optional sign, digits
\* with at most one point, at least one digit.  The value is
\* (neg ? -1 : 1) * num / den; end is the index of the first character not
\* consumed, Len(s) + 1 standing for the terminating '\0'.  With no
\* conversion the value is 0 and end is the start of the string.
strtold(s) ==
    LET p0   == SkipSpaces(s, 1)
        sign == p0 <= Len(s) /\ s[p0] \in { "-", "+" }
        p1   == IF sign THEN p0 + 1 ELSE p0
        p2   == DigitsEnd(s, p1)
        dot  == p2 <= Len(s) /\ s[p2] = "."
        p3   == IF dot THEN DigitsEnd(s, p2 + 1) ELSE p2
        nInt == p2 - p1
        nFrc == IF dot THEN p3 - (p2 + 1) ELSE 0
    IN  IF nInt + nFrc >= 1
        THEN [ neg |-> sign /\ s[p0] = "-",
               num |-> DigitsVal(s, p1, p2) * (10 ^ nFrc)
                         + (IF dot THEN DigitsVal(s, p2 + 1, p3) ELSE 0),
               den |-> 10 ^ nFrc,
               end |-> p3 ]
        ELSE [ neg |-> FALSE, num |-> 0, den |-> 1, end |-> 1 ]

\* the parsed value as a numerator over MDen
ToM(v) == (IF v.neg THEN -1 ELSE 1) * ((v.num * MDen) \div v.den)

\* *end != '\0'
EndNotNul(s) == strtold(s).end /= Len(s) + 1

\* the argument strings of the model: every string of at most MaxArgLen
\* characters whose parsed value is a threshold of the grid, or is negative
\* and a multiple of 1/MDen, or is never used because the string is rejected
Strings == UNION { [ 1 .. k -> ArgChars ] : k \in 0 .. MaxArgLen }

Args ==
    { s \in Strings :
        LET v == strtold(s)
        IN  /\ (v.num * MDen) % v.den = 0
            /\ (EndNotNul(s) \/ v.neg \/ ToM(v) \in MGrid) }

(* ---------------------------- state ------------------------------------ *)

VARIABLES
    argc,       \* main: the argument count
    argv1,      \* main: argv[1], a sequence of characters
    pc,         \* the place control is at
    exitCode,   \* main: the value returned, meaningful at pc = "exit"
    M,          \* the threshold (numerator over MDen)
    N,          \* the value hseriesThreshold returned last
    G_sum,      \* the global G_sum (numerator over DenH)
    n,          \* hseriesThreshold: the guess
    sum,        \* hseriesThreshold: the running sum (numerator over DenH)
    num_tests,  \* hseriesThreshold: the number of loop iterations so far
    n0,         \* history: the initial guess of the running call
    calls,      \* history: how many times hseriesThreshold was entered
    first,      \* history: <<M, N, G_sum>> of the first call, once it returned
    second,     \* history: <<M, N, G_sum>> of the second call, once it returned
    nStart,     \* harmonicSeriesEx: first argument
    nEnd,       \* harmonicSeriesEx: second argument
    hsum        \* harmonicSeriesEx: the value returned

vars == << argc, argv1, pc, exitCode, M, N, G_sum, n, sum, num_tests, n0,
           calls, first, second, nStart, nEnd, hsum >>

mainVars == << argc, argv1, exitCode >>
callVars == << n, sum, num_tests, n0, calls >>
histVars == << first, second >>
sumVars  == << nStart, nEnd, hsum >>

\* the state every program run starts from: G_sum = 0.0L, nothing called
Fresh ==
    /\ exitCode = 0 /\ N = 0 /\ G_sum = 0
    /\ n = 0 /\ sum = 0 /\ num_tests = 0 /\ n0 = 0 /\ calls = 0
    /\ first = << >> /\ second = << >>
    /\ hsum = 0

(* ----------------------- hseriesThreshold ------------------------------ *)

\* Estimate with line 108 left out: G_sum is saved inside the loop only
EstimateWithoutSave ==
    /\ pc = "call"
    /\ n' = InitialGuess(M)
    /\ sum' = harmonicSeries(n')
    /\ num_tests' = 0
    /\ n0' = n'
    /\ calls' = calls + 1
    /\ pc' = "loop"
    /\ UNCHANGED << M, N, G_sum, mainVars, histVars, sumVars >>

\* lines 81-108: the locals, the initial guess, the one full summation and
\* the first save of G_sum
Estimate ==
    /\ pc = "call"
    /\ n' = InitialGuess(M)
    /\ sum' = harmonicSeries(n')
    /\ G_sum' = sum'
    /\ num_tests' = 0
    /\ n0' = n'
    /\ calls' = calls + 1
    /\ pc' = "loop"
    /\ UNCHANGED << M, N, mainVars, histVars, sumVars >>

\* the condition of the while loop
LoopCondition == SumMinusMAboveMinusDelta(sum, M) /\ n > 0

\* Refine with the term written 1/n, an integer division
RefineIntegerDivision ==
    /\ pc = "loop"
    /\ LoopCondition
    /\ num_tests' = num_tests + 1
    /\ G_sum' = sum
    /\ sum' = sum - (1 \div n) * DenH
    /\ n' = n - 1
    /\ UNCHANGED << pc, M, N, n0, calls, mainVars, histVars, sumVars >>

\* lines 110-123: one iteration of the loop
Refine ==
    /\ pc = "loop"
    /\ LoopCondition
    /\ num_tests' = num_tests + 1
    /\ G_sum' = sum
    /\ sum' = sum - OneOver(n)
    /\ n' = n - 1
    /\ UNCHANGED << pc, M, N, n0, calls, mainVars, histVars, sumVars >>

\* Return with n returned in place of n + 1UL
ReturnGuess ==
    /\ pc = "loop"
    /\ ~LoopCondition
    /\ N' = n
    /\ pc' = "ret"
    /\ UNCHANGED << M, G_sum, callVars, mainVars, histVars, sumVars >>

\* line 133: the loop is left and n + 1UL returned
Return ==
    /\ pc = "loop"
    /\ ~LoopCondition
    /\ N' = n + 1
    /\ pc' = "ret"
    /\ UNCHANGED << M, G_sum, callVars, mainVars, histVars, sumVars >>

(* ------------------------------ main ----------------------------------- *)

\* lines 139-143
MainUsage ==
    /\ pc = "main"
    /\ argc /= 2
    /\ exitCode' = -1
    /\ pc' = "exit"
    /\ UNCHANGED << argc, argv1, M, N, G_sum, callVars, histVars, sumVars >>

\* lines 146-153: the conversion stopped before the end of the string
MainInvalid ==
    /\ pc = "main"
    /\ argc = 2
    /\ M' = ToM(strtold(argv1))
    /\ EndNotNul(argv1)
    /\ exitCode' = -1
    /\ pc' = "exit"
    /\ UNCHANGED << argc, argv1, N, G_sum, callVars, histVars, sumVars >>

\* lines 146-158: the number is below zero
MainNegative ==
    /\ pc = "main"
    /\ argc = 2
    /\ M' = ToM(strtold(argv1))
    /\ ~EndNotNul(argv1)
    /\ M' < 0
    /\ exitCode' = -1
    /\ pc' = "exit"
    /\ UNCHANGED << argc, argv1, N, G_sum, callVars, histVars, sumVars >>

\* lines 146-161: the input is accepted and hseriesThreshold(M) called
MainCall ==
    /\ pc = "main"
    /\ argc = 2
    /\ M' = ToM(strtold(argv1))
    /\ ~EndNotNul(argv1)
    /\ ~(M' < 0)
    /\ pc' = "call"
    /\ UNCHANGED << mainVars, N, G_sum, callVars, histVars, sumVars >>

\* lines 161-166: the result is printed and main returns 0
MainPrint ==
    /\ pc = "ret"
    /\ exitCode' = 0
    /\ pc' = "exit"
    /\ UNCHANGED << argc, argv1, M, N, G_sum, callVars, histVars, sumVars >>

\* one run of the program
Init ==
    /\ pc = "main"
    /\ argc \in 1 .. 3
    /\ argv1 \in (IF argc = 1 THEN { << >> } ELSE Args)
    /\ M = 0
    /\ Fresh
    /\ nStart = 0 /\ nEnd = 0

Next ==
    \/ MainUsage
    \/ MainInvalid
    \/ MainNegative
    \/ MainCall
    \/ Estimate
    \/ Refine
    \/ Return
    \/ MainPrint

Spec == Init /\ [][Next]_vars

(* --------------- hseriesThreshold called three times ------------------- *)

\* A caller that calls hseriesThreshold(M1), then hseriesThreshold(M2) for
\* any M2, then hseriesThreshold(M1) again, G_sum never touched in between.

InitCalls ==
    /\ pc = "call"
    /\ argc = 2
    /\ argv1 = << >>
    /\ M \in MGrid
    /\ Fresh
    /\ nStart = 0 /\ nEnd = 0

\* the first call has returned: call again, with any threshold
CallOther ==
    /\ pc = "ret"
    /\ calls = 1
    /\ first' = << M, N, G_sum >>
    /\ \E m \in MGrid : M' = m
    /\ pc' = "call"
    /\ UNCHANGED << N, G_sum, callVars, second, mainVars, sumVars >>

\* the second call has returned: call again, with the first threshold
CallSame ==
    /\ pc = "ret"
    /\ calls = 2
    /\ second' = << M, N, G_sum >>
    /\ M' = first[1]
    /\ pc' = "call"
    /\ UNCHANGED << N, G_sum, callVars, first, mainVars, sumVars >>

NextCalls ==
    \/ Estimate
    \/ Refine
    \/ Return
    \/ CallOther
    \/ CallSame

SpecCalls == InitCalls /\ [][NextCalls]_vars

(* ------------------- harmonicSeriesEx called once ---------------------- *)

InitSum ==
    /\ pc = "sum"
    /\ argc = 2
    /\ argv1 = << >>
    /\ M = 0
    /\ Fresh
    /\ nStart \in 0 .. MaxN
    /\ nEnd \in 0 .. MaxN

\* lines 52-68
SumCall ==
    /\ pc = "sum"
    /\ hsum' = harmonicSeriesEx(nStart, nEnd)
    /\ pc' = "sumdone"
    /\ UNCHANGED << nStart, nEnd, M, N, G_sum, callVars, mainVars, histVars >>

NextSum == SumCall

SpecSum == InitSum /\ [][NextSum]_vars

(* ------------- hseriesThreshold from any initial guess ----------------- *)

\* Lines 107-133 entered with any guess: what expl and the cast produce
\* varies with the platform, the loop has to work from whatever it is given.
EstimateAny ==
    /\ pc = "call"
    /\ n' \in 0 .. MaxN
    /\ sum' = harmonicSeries(n')
    /\ G_sum' = sum'
    /\ num_tests' = 0
    /\ n0' = n'
    /\ calls' = calls + 1
    /\ pc' = "loop"
    /\ UNCHANGED << M, N, mainVars, histVars, sumVars >>

InitGuess ==
    /\ pc = "call"
    /\ argc = 2
    /\ argv1 = << >>
    /\ M \in MGrid
    /\ Fresh
    /\ nStart = 0 /\ nEnd = 0

NextGuess ==
    \/ EstimateAny
    \/ Refine
    \/ Return

SpecGuess == InitGuess /\ [][NextGuess]_vars

\* the program is sequential and nothing suspends it: a step that can be
\* taken is taken
SpecGuessFair == SpecGuess /\ WF_vars(NextGuess)

(* ====================== the claims ===================================== *)

RECURSIVE SetSum(_)
\* the sum of 1/i over the i of S (numerator over DenH)
SetSum(S) ==
    IF S = {} THEN 0
    ELSE LET i == CHOOSE x \in S : TRUE
         IN  (DenH \div i) + SetSum(S \ {i})

\* H(k) = 1 + 1/2 + ... + 1/k, H(0) = 0
H(k) == SetSum(1 .. k)

\* H(k) > M and H(k) <= M, for M = m / MDen
HAbove(k, m) == H(k) * MDen > m * DenH
HAtMost(k, m) == H(k) * MDen <= m * DenH

\* H(k) > M - DELTA:  (m*DenH - H(k)*MDen) * DELTA_INV < DenH * MDen
HAboveMinusDelta(k, m) ==
    LET d == m * DenH - H(k) * MDen
    IN  d <= 0 \/ DELTA_INV <= (DenH * MDen - 1) \div d

\* min { k >= 1 : H(k) > M }, the true crossing point
Crossing(m) ==
    CHOOSE k \in 1 .. MaxN :
        HAbove(k, m) /\ \A j \in 1 .. (k - 1) : ~HAbove(j, m)

\* min { k >= 1 : H(k) > M - DELTA }
CrossingDelta(m) ==
    CHOOSE k \in 1 .. MaxN :
        HAboveMinusDelta(k, m) /\ \A j \in 1 .. (k - 1) : ~HAboveMinusDelta(j, m)

\* C1: whenever hseriesThreshold(M) has returned N, H(N) > M strictly and
\* N = 1 or H(N-1) <= M (N is the minimal such length).
C1_Minimality ==
    pc = "ret" => HAbove(N, M) /\ (N = 1 \/ HAtMost(N - 1, M))

\* C2: when main prints after a successful search, G_sum equals H(N) for
\* the N that hseriesThreshold returned.
C2_LastSumMatchesN ==
    (pc = "exit" /\ exitCode = 0) => G_sum = H(N)

\* a string that is, as a whole, a real number: an optional sign, then
\* digits with at most one point and at least one digit
ValidReal(s) ==
    LET from == IF Len(s) >= 1 /\ s[1] \in { "-", "+" } THEN 2 ELSE 1
        body == from .. Len(s)
    IN  /\ \A i \in body : s[i] \in Digits \cup { "." }
        /\ Cardinality({ i \in body : s[i] = "." }) <= 1
        /\ \E i \in body : s[i] \in Digits

\* the number written is below zero
NegativeReal(s) ==
    ValidReal(s) /\ s[1] = "-" /\ \E i \in 2 .. Len(s) : s[i] \in Digits \ { "0" }

InputError == argc /= 2 \/ ~ValidReal(argv1) \/ NegativeReal(argv1)

\* C3: on an input error (argument count not 2, argv[1] no fully valid real
\* number, or the number negative) hseriesThreshold is never entered, G_sum
\* stays 0 and main returns non-zero; otherwise hseriesThreshold is entered
\* exactly once and main returns 0.
C3_InputErrorsStopBeforeSearch ==
    /\ InputError => (calls = 0 /\ G_sum = 0)
    /\ calls <= 1
    /\ pc = "exit" =>
         IF InputError THEN exitCode /= 0 ELSE (exitCode = 0 /\ calls = 1)

\* C4: the initial guess is at or above the true crossing point, and the
\* refinement loop has run at least once when the function returns.
C4_EstimatorFromAbove ==
    /\ pc \in { "loop", "ret" } => n0 >= Crossing(M)
    /\ pc = "ret" => num_tests >= 1

C6_Idempotent ==
    (pc = "ret" /\ calls = 3) => (N = first[2] /\ G_sum = first[3])

\* the third call has returned, and it was entered with a G_sum other than
\* the one the first call was entered with (0) and the one it left
C6_Witness ==
    /\ pc = "ret" /\ calls = 3
    /\ second[3] /= 0
    /\ second[3] /= first[3]
    /\ num_tests = 0

C8_RunningSum ==
    pc \in { "loop", "ret" } => sum = H(n)

\* the loop has removed three terms and goes on
C8_Witness ==
    pc = "loop" /\ num_tests >= 3 /\ n >= 1 /\ LoopCondition

\* the state part of C9
C9_Bounded ==
    /\ pc \in { "loop", "ret" } =>
          (n >= 0 /\ n <= n0 /\ n + num_tests = n0 /\ num_tests <= n0)
    /\ pc = "ret" => N \in 1 .. (n0 + 1)

\* C9: the guess goes down by exactly 1 per iteration and never below 0, at
\* most N0 iterations are made, and the function returns, with a value in
\* 1 .. N0 + 1.
C9_Termination ==
    /\ []C9_Bounded
    /\ [][(pc = "loop" /\ pc' = "loop") => n' = n - 1]_vars
    /\ <>(pc = "ret")

\* the loop ran until the guess reached 0
C9_Witness ==
    pc = "ret" /\ n0 >= 3 /\ num_tests = n0 /\ n = 0 /\ N = 1

\* C10: with K = min { k >= 1 : H(k) > M - DELTA }: from N0 >= K the result
\* is K (so H(N-1) <= M - DELTA < H(N) when N >= 2); from N0 < K the loop
\* body never runs and the result is N0 + 1 <= K, equal to K only when
\* N0 = K - 1.
C10_WhatTheLoopComputes ==
    pc = "ret" =>
        LET K == CrossingDelta(M)
        IN  IF n0 >= K
            THEN /\ N = K
                 /\ N >= 2 => (~HAboveMinusDelta(N - 1, M) /\ HAboveMinusDelta(N, M))
            ELSE /\ num_tests = 0
                 /\ N = n0 + 1
                 /\ N <= K
                 /\ (N = K) <=> (n0 = K - 1)

\* both cases: a result K >= 2 reached from above after several steps ...
C10_Witness ==
    /\ pc = "ret" /\ n0 > CrossingDelta(M) + 1 /\ N >= 2
    /\ M = MDen + MDen \div 2

\* ... and a guess so low that the result stays below K
C10_WitnessBelow ==
    pc = "ret" /\ n0 + 1 < CrossingDelta(M)

====
